---- MODULE Spec2Model ----
(***************************************************************************)
(* Policy status aggregation of kubernetes-nmstate                         *)
(* (pkg/policyconditions/conditions.go).                                   *)
(*                                                                         *)
(* Update(policyKey) and Reset(policyKey) run a read-modify-write cycle    *)
(* against an optimistic-concurrency object store inside                   *)
(* retry.RetryOnConflict(retry.DefaultRetry, ...).  The store holds one    *)
(* policy, the enactments labelled with that policy (one per node at       *)
(* most) and the set of nodes running the nmstate handler.  Node agents,   *)
(* the policy owner and other status writers change the store while the    *)
(* callers run.                                                            *)
(*                                                                         *)
(* ConditionList.Set and enactmentconditions.Count are code of the         *)
(* repository that lives outside the modelled file; they are modelled      *)
(* from sections 3, 4.1 and 4.2 of the specification.                      *)
(***************************************************************************)
EXTENDS Integers, Sequences, FiniteSets, TLC

VARIABLES
    \* the object store
    storePolicy,       \* the policy: generation, resourceVersion, status conditions
    storeEnactments,   \* node -> the enactment of the policy for the node
    storeNodes,        \* the nodes running the nmstate handler
    now,               \* the clock read by ConditionList.Set
    policyWrites,      \* writes to the policy made by other writers so far
    agentWrites,       \* enactment writes and node joins/leaves so far
    \* one invocation of Update or Reset per caller
    pc,                \* where the caller is in its attempt
    op,                \* "Update" or "Reset"
    attempt,           \* the attempt of retry.RetryOnConflict that is running
    policy,            \* the attempt's copy of the policy
    enactments,        \* the attempt's list of enactments
    nmstateNodes,      \* the attempt's list of nodes
    result,            \* what the invocation returned
    \* history of the invocation
    fetched,           \* per attempt, what the attempt read from the store
    calls              \* the store calls of the invocation, their outcomes
                       \* and the conditions it stored

storeVars == <<storePolicy, storeEnactments, storeNodes, policyWrites, agentWrites>>
callerVars == <<pc, op, attempt, policy, enactments, nmstateNodes, result,
                fetched, calls>>
vars == <<storePolicy, storeEnactments, storeNodes, now, policyWrites,
          agentWrites, pc, op, attempt, policy, enactments, nmstateNodes,
          result, fetched, calls>>

(***************************************************************************)
(* Bounds of the model.                                                    *)
(***************************************************************************)
\* nodes of the cluster
NumNodes == 3
\* nodes whose agent or eligibility changes while a caller runs
NumActiveNodes == 1
\* highest policy generation a spec change produces
MaxGeneration == 2
\* writes to the policy object by writers other than the callers
MaxPolicyWrites == 1
\* the same, where nothing else changes in the store
MaxChurn == 5
\* enactment writes and node joins/leaves while the callers run
MaxAgentWrites == 1
\* the latest time the clock shows
MaxTime == 2

(***************************************************************************)
(* Program constants.                                                      *)
(***************************************************************************)
\* retry.DefaultRetry: wait.Backoff{Steps: 5, ...}
DefaultRetrySteps == 5

Nodes == 1..NumNodes
ActiveNodes == 1..NumActiveNodes
\* the invocations: the second is one that follows or overlaps the first
Callers == {1, 2}
\* the invocation of the specifications with a single invocation
Single == {1}

\* condition types of a policy
Degraded == "Degraded"
Available == "Available"

\* corev1.ConditionStatus
ConditionTrue == "True"
ConditionFalse == "False"
ConditionUnknown == "Unknown"

\* condition reasons
ConfigurationProgressing == "ConfigurationProgressing"
SuccessfullyConfigured == "SuccessfullyConfigured"
ConfigurationNoMatchingNode == "ConfigurationNoMatchingNode"
FailedToConfigure == "FailedToConfigure"
ConfigurationAborted == "ConfigurationAborted"

(***************************************************************************)
(* ConditionList (specification 3 and 4.1).                                *)
(***************************************************************************)
\* index of the condition of the given type, 0 when there is none
Find(conditions, conditionType) ==
    IF \E i \in 1..Len(conditions) : conditions[i].type = conditionType
    THEN CHOOSE i \in 1..Len(conditions) :
            /\ conditions[i].type = conditionType
            /\ \A j \in 1..(i - 1) : conditions[j].type # conditionType
    ELSE 0

\* ConditionList.Set: upsert by type
Set(conditions, conditionType, status, reason, message, time) ==
    LET i == Find(conditions, conditionType)
    IN IF i = 0
       THEN Append(conditions,
                   [type |-> conditionType, status |-> status, reason |-> reason,
                    message |-> message, lastTransitionTime |-> time,
                    lastHeartbeatTime |-> time])
       ELSE [conditions EXCEPT
               ![i] = [type |-> conditionType,
                       status |-> status,
                       reason |-> reason,
                       message |-> message,
                       lastTransitionTime |->
                           IF conditions[i].status # status
                           THEN time
                           ELSE conditions[i].lastTransitionTime,
                       lastHeartbeatTime |-> time]]

(***************************************************************************)
(* Enactments and the enactment counter (specification 3 and 4.2).         *)
(***************************************************************************)
\* no enactment of the policy for a node
NoEnactment == [policyGeneration |-> 0, status |-> "", reason |-> ""]

\* what a node agent writes as the Available condition of its enactment
EnactmentReports ==
    { [status |-> ConditionTrue, reason |-> SuccessfullyConfigured],
      [status |-> ConditionUnknown, reason |-> SuccessfullyConfigured],
      [status |-> ConditionFalse, reason |-> FailedToConfigure],
      [status |-> ConditionFalse, reason |-> ConfigurationNoMatchingNode],
      [status |-> ConditionFalse, reason |-> ConfigurationAborted],
      [status |-> ConditionUnknown, reason |-> ConfigurationProgressing] }

Enactment(generation, report) ==
    [policyGeneration |-> generation, status |-> report.status,
     reason |-> report.reason]

EnactmentValues ==
    {NoEnactment} \cup
    { Enactment(g, r) : g \in 1..MaxGeneration, r \in EnactmentReports }

\* the bucket of one enactment of the current generation
Bucket(e) ==
    IF e.reason = SuccessfullyConfigured /\ e.status = ConditionTrue THEN "available"
    ELSE IF e.reason = FailedToConfigure THEN "failed"
    ELSE IF e.reason = ConfigurationNoMatchingNode THEN "notMatching"
    ELSE IF e.reason = ConfigurationAborted THEN "aborted"
    ELSE "progressing"

\* the nodes whose enactment is in the list and is of the given generation
Counted(items, generation) ==
    { n \in Nodes : /\ items[n] # NoEnactment
                    /\ items[n].policyGeneration = generation }

\* Count that ignores the generation of the enactments
CountAnyGeneration(items, generation) ==
    LET counted == { n \in Nodes : items[n] # NoEnactment }
        in(b) == Cardinality({ n \in counted : Bucket(items[n]) = b })
    IN [available |-> in("available"), failed |-> in("failed"),
        notMatching |-> in("notMatching"), aborted |-> in("aborted"),
        progressing |-> in("progressing"),
        matching |-> Cardinality(counted) - in("notMatching")]

\* enactmentconditions.Count
Count(items, generation) ==
    LET counted == Counted(items, generation)
        in(b) == Cardinality({ n \in counted : Bucket(items[n]) = b })
    IN [available |-> in("available"), failed |-> in("failed"),
        notMatching |-> in("notMatching"), aborted |-> in("aborted"),
        progressing |-> in("progressing"),
        matching |-> Cardinality(counted) - in("notMatching")]

(***************************************************************************)
(* The policy conditions (conditions.go, lines 26-88).                     *)
(***************************************************************************)
\* SetPolicyProgressing with the Degraded status of SetPolicySuccess
SetPolicyProgressingNotDegraded(conditions, message, time) ==
    Set(Set(conditions, Degraded, ConditionFalse, ConfigurationProgressing,
            "", time),
        Available, ConditionUnknown, ConfigurationProgressing, message, time)

SetPolicyProgressing(conditions, message, time) ==
    Set(Set(conditions, Degraded, ConditionUnknown, ConfigurationProgressing,
            "", time),
        Available, ConditionUnknown, ConfigurationProgressing, message, time)

SetPolicySuccess(conditions, message, time) ==
    Set(Set(conditions, Degraded, ConditionFalse, SuccessfullyConfigured,
            "", time),
        Available, ConditionTrue, SuccessfullyConfigured, message, time)

\* SetPolicyNotMatching with the statuses of SetPolicyFailedToConfigure
SetPolicyNotMatchingAsFailure(conditions, message, time) ==
    Set(Set(conditions, Degraded, ConditionTrue, ConfigurationNoMatchingNode,
            message, time),
        Available, ConditionFalse, ConfigurationNoMatchingNode, message, time)

SetPolicyNotMatching(conditions, message, time) ==
    Set(Set(conditions, Degraded, ConditionFalse, ConfigurationNoMatchingNode,
            message, time),
        Available, ConditionTrue, ConfigurationNoMatchingNode, message, time)

\* SetPolicyFailedToConfigure that adds the message to the message the
\* Degraded condition already has
SetPolicyFailedToConfigureAppends(conditions, message, time) ==
    LET old == IF Find(conditions, Degraded) = 0 THEN ""
               ELSE conditions[Find(conditions, Degraded)].message
    IN Set(Set(conditions, Degraded, ConditionTrue, FailedToConfigure,
               old \o message, time),
           Available, ConditionFalse, FailedToConfigure, "", time)

SetPolicyFailedToConfigure(conditions, message, time) ==
    Set(Set(conditions, Degraded, ConditionTrue, FailedToConfigure,
            message, time),
        Available, ConditionFalse, FailedToConfigure, "", time)

(***************************************************************************)
(* The computation of Update between its reads and its write               *)
(* (conditions.go, lines 116-140).                                         *)
(***************************************************************************)
\* fmt.Sprintf("Policy is progressing %d/%d nodes finished", ...)
ProgressingMessage(finished, numberOfNmstateNodes) ==
    "Policy is progressing " \o ToString(finished) \o "/"
        \o ToString(numberOfNmstateNodes) \o " nodes finished"

NotMatchingMessage == "Policy does not match any node"

\* the failure message without the count of aborted nodes
FailedMessageNoAborted(count) ==
    ToString(count.failed) \o "/" \o ToString(count.matching)
        \o " nodes failed to configure"

\* "%d/%d nodes failed to configure" and, with aborted nodes,
\* ", %d nodes aborted configuration"
FailedMessage(count) ==
    LET message == ToString(count.failed) \o "/" \o ToString(count.matching)
                       \o " nodes failed to configure"
    IN IF count.aborted > 0
       THEN message \o ", " \o ToString(count.aborted)
                \o " nodes aborted configuration"
       ELSE message

\* the success message with the matching nodes as the total
SuccessMessageOfMatching(count) ==
    ToString(count.available) \o "/" \o ToString(count.matching)
        \o " nodes successfully configured"

\* fmt.Sprintf("%d/%d nodes successfully configured", Available(), Available())
SuccessMessage(count) ==
    ToString(count.available) \o "/" \o ToString(count.available)
        \o " nodes successfully configured"

\* the count of the enactments of any generation
EnactmentsCountUnfiltered(pol, items) ==
    CountAnyGeneration(items, pol.generation)

\* enactmentconditions.Count(enactments, policy.Generation)
EnactmentsCount(pol, items) == Count(items, pol.generation)

NumberOfFinishedEnactments(count) ==
    count.available + count.failed + count.notMatching + count.aborted

\* the decision with the failure test ahead of the progress test
DecideFailureFirst(conditions, count, numberOfNmstateNodes, time) ==
    IF count.failed > 0 \/ count.aborted > 0
    THEN SetPolicyFailedToConfigure(conditions, FailedMessage(count), time)
    ELSE IF NumberOfFinishedEnactments(count) < numberOfNmstateNodes
    THEN SetPolicyProgressing(conditions,
             ProgressingMessage(NumberOfFinishedEnactments(count),
                                numberOfNmstateNodes), time)
    ELSE IF count.matching = 0
    THEN SetPolicyNotMatching(conditions, NotMatchingMessage, time)
    ELSE SetPolicySuccess(conditions, SuccessMessage(count), time)

\* the if-chain of Update, lines 124-140
Decide(conditions, count, numberOfNmstateNodes, time) ==
    IF NumberOfFinishedEnactments(count) < numberOfNmstateNodes
    THEN SetPolicyProgressing(conditions,
             ProgressingMessage(NumberOfFinishedEnactments(count),
                                numberOfNmstateNodes), time)
    ELSE IF count.matching = 0
    THEN SetPolicyNotMatching(conditions, NotMatchingMessage, time)
    ELSE IF count.failed > 0 \/ count.aborted > 0
    THEN SetPolicyFailedToConfigure(conditions, FailedMessage(count), time)
    ELSE SetPolicySuccess(conditions, SuccessMessage(count), time)

\* Update sets the conditions in a new list instead of the list it read
UpdateConditionsInNewList(pol, items, nodeList, time) ==
    Decide(<<>>, EnactmentsCount(pol, items), Cardinality(nodeList), time)

\* the conditions Update leaves in its copy of the policy
UpdateConditions(pol, items, nodeList, time) ==
    Decide(pol.conditions, EnactmentsCount(pol, items),
           Cardinality(nodeList), time)

(***************************************************************************)
(* The state before a caller has read anything.                            *)
(***************************************************************************)
\* &nmstatev1beta1.NodeNetworkConfigurationPolicy{}
ZeroPolicy == [generation |-> 0, resourceVersion |-> 0, conditions |-> <<>>]

\* nmstatev1beta1.NodeNetworkConfigurationEnactmentList{}
ZeroEnactments == [n \in Nodes |-> NoEnactment]

\* what an attempt has read when it has read the policy only
Fetched(pol) ==
    [policy |-> pol, enactments |-> ZeroEnactments, nmstateNodes |-> {},
     time |-> 0, listedAt |-> 0]

ZeroCalls ==
    [get |-> 0, list |-> 0, nodes |-> 0, update |-> 0, written |-> 0,
     lastRead |-> "", lastUpdate |-> "", stored |-> <<>>]

InitCallers ==
    /\ pc = [p \in Callers |-> "Idle"]
    /\ op = [p \in Callers |-> ""]
    /\ attempt = [p \in Callers |-> 0]
    /\ policy = [p \in Callers |-> ZeroPolicy]
    /\ enactments = [p \in Callers |-> ZeroEnactments]
    /\ nmstateNodes = [p \in Callers |-> {}]
    /\ result = [p \in Callers |-> ""]
    /\ fetched = [p \in Callers |-> <<>>]
    /\ calls = [p \in Callers |-> ZeroCalls]

\* the rank of an enactment value in a fixed order of the values
Rank(e) ==
    IF e = NoEnactment THEN 0
    ELSE (e.policyGeneration * 10)
         + (CASE Bucket(e) = "available" -> 1
              [] Bucket(e) = "failed" -> 2
              [] Bucket(e) = "notMatching" -> 3
              [] Bucket(e) = "aborted" -> 4
              [] e.reason = SuccessfullyConfigured -> 5
              [] OTHER -> 6)

\* conditions a policy may hold from an earlier reconciliation
EarlierConditions ==
    { <<>>,
      SetPolicyFailedToConfigure(<<>>, "1/1 nodes failed to configure", 0) }

\* A cluster in any state: the nodes are numbered so that their enactments
\* come in the order of Rank (nothing below depends on a node's number).
InitAnyCluster ==
    /\ storePolicy \in [generation : 1..MaxGeneration, resourceVersion : {1},
                         conditions : EarlierConditions]
    /\ storeEnactments \in
           { f \in [Nodes -> EnactmentValues] :
                 /\ \A n \in Nodes : f[n].policyGeneration <= storePolicy.generation
                 /\ \A n \in 1..(NumNodes - 1) : Rank(f[n]) <= Rank(f[n + 1]) }
    /\ storeNodes \in SUBSET Nodes
    /\ now = 0
    /\ policyWrites = 0
    /\ agentWrites = 0
    /\ InitCallers

\* A policy of the first generation for which no node has reported yet.
Init ==
    /\ storePolicy \in [generation : {1}, resourceVersion : {1},
                         conditions : EarlierConditions]
    /\ storeEnactments = ZeroEnactments
    /\ storeNodes \in SUBSET ActiveNodes
    /\ now = 0
    /\ policyWrites = 0
    /\ agentWrites = 0
    /\ InitCallers

(***************************************************************************)
(* Update and Reset (conditions.go, lines 90-175): one action per store    *)
(* call of an attempt and per outcome of the call.                         *)
(***************************************************************************)
Running(p) == pc[p] \notin {"Idle", "Done"}

\* the caller's invocation returns r
Finish(p, r) ==
    /\ pc' = [pc EXCEPT ![p] = "Done"]
    /\ result' = [result EXCEPT ![p] = r]

\* a caller invokes Update(cli, policyKey)
UpdateInvoke(p) ==
    /\ pc[p] = "Idle"
    /\ pc' = [pc EXCEPT ![p] = "Get"]
    /\ op' = [op EXCEPT ![p] = "Update"]
    /\ attempt' = [attempt EXCEPT ![p] = 1]
    /\ UNCHANGED <<storeVars, now, policy, enactments, nmstateNodes, result,
                   fetched, calls>>

\* a caller invokes Reset(cli, policyKey)
ResetInvoke(p) ==
    /\ pc[p] = "Idle"
    /\ pc' = [pc EXCEPT ![p] = "Get"]
    /\ op' = [op EXCEPT ![p] = "Reset"]
    /\ attempt' = [attempt EXCEPT ![p] = 1]
    /\ UNCHANGED <<storeVars, now, policy, enactments, nmstateNodes, result,
                   fetched, calls>>

\* cli.Get returns the policy (Update, lines 96-100)
UpdateGet(p) ==
    /\ pc[p] = "Get" /\ op[p] = "Update"
    /\ policy' = [policy EXCEPT ![p] = storePolicy]
    /\ fetched' = [fetched EXCEPT ![p] = Append(@, Fetched(storePolicy))]
    /\ calls' = [calls EXCEPT ![p].get = @ + 1, ![p].lastRead = "ok"]
    /\ pc' = [pc EXCEPT ![p] = "List"]
    /\ UNCHANGED <<storeVars, now, op, attempt, enactments, nmstateNodes, result>>

\* cli.Get fails: "getting policy failed" (Update, lines 97-100)
UpdateGetFails(p) ==
    /\ pc[p] = "Get" /\ op[p] = "Update"
    /\ calls' = [calls EXCEPT ![p].get = @ + 1, ![p].lastRead = "error"]
    /\ Finish(p, "ReadFailure")
    /\ UNCHANGED <<storeVars, now, op, attempt, policy, enactments,
                   nmstateNodes, fetched>>

\* cli.List returns the enactments of the policy (Update, lines 102-107)
UpdateList(p) ==
    /\ pc[p] = "List"
    /\ enactments' = [enactments EXCEPT ![p] = storeEnactments]
    /\ fetched' = [fetched EXCEPT ![p][Len(fetched[p])].enactments =
                                      storeEnactments,
                                  ![p][Len(fetched[p])].listedAt = agentWrites]
    /\ calls' = [calls EXCEPT ![p].list = @ + 1, ![p].lastRead = "ok"]
    /\ pc' = [pc EXCEPT ![p] = "Nodes"]
    /\ UNCHANGED <<storeVars, now, op, attempt, policy, nmstateNodes, result>>

\* the error of cli.List is dropped and the attempt goes on with an empty list
UpdateListFailsIgnored(p) ==
    /\ pc[p] = "List"
    /\ calls' = [calls EXCEPT ![p].list = @ + 1, ![p].lastRead = "error"]
    /\ pc' = [pc EXCEPT ![p] = "Nodes"]
    /\ UNCHANGED <<storeVars, now, op, attempt, policy, enactments,
                   nmstateNodes, result, fetched>>

\* cli.List fails: "getting enactments failed" (Update, lines 104-107)
UpdateListFails(p) ==
    /\ pc[p] = "List"
    /\ calls' = [calls EXCEPT ![p].list = @ + 1, ![p].lastRead = "error"]
    /\ Finish(p, "ReadFailure")
    /\ UNCHANGED <<storeVars, now, op, attempt, policy, enactments,
                   nmstateNodes, fetched>>

\* node.NodesRunningNmstate returns the nodes, and the conditions are set
\* in the copy of the policy (Update, lines 112-140)
UpdateNodes(p) ==
    /\ pc[p] = "Nodes"
    /\ nmstateNodes' = [nmstateNodes EXCEPT ![p] = storeNodes]
    /\ policy' = [policy EXCEPT ![p].conditions =
                     UpdateConditions(policy[p], enactments[p], storeNodes, now)]
    /\ fetched' = [fetched EXCEPT ![p][Len(fetched[p])].nmstateNodes = storeNodes,
                                  ![p][Len(fetched[p])].time = now]
    /\ calls' = [calls EXCEPT ![p].nodes = @ + 1, ![p].lastRead = "ok"]
    /\ pc' = [pc EXCEPT ![p] = "StatusUpdate"]
    /\ UNCHANGED <<storeVars, now, op, attempt, enactments, result>>

\* node.NodesRunningNmstate fails (Update, lines 112-115)
UpdateNodesFails(p) ==
    /\ pc[p] = "Nodes"
    /\ calls' = [calls EXCEPT ![p].nodes = @ + 1, ![p].lastRead = "error"]
    /\ Finish(p, "ReadFailure")
    /\ UNCHANGED <<storeVars, now, op, attempt, policy, enactments,
                   nmstateNodes, fetched>>

\* Reset without the assignment of an empty ConditionList
ResetGetKeepsConditions(p) ==
    /\ pc[p] = "Get" /\ op[p] = "Reset"
    /\ policy' = [policy EXCEPT ![p] = storePolicy]
    /\ fetched' = [fetched EXCEPT ![p] = Append(@, Fetched(storePolicy))]
    /\ calls' = [calls EXCEPT ![p].get = @ + 1, ![p].lastRead = "ok"]
    /\ pc' = [pc EXCEPT ![p] = "StatusUpdate"]
    /\ UNCHANGED <<storeVars, now, op, attempt, enactments, nmstateNodes, result>>

\* cli.Get returns the policy and its conditions are cleared in the copy
\* (Reset, lines 158-163)
ResetGet(p) ==
    /\ pc[p] = "Get" /\ op[p] = "Reset"
    /\ policy' = [policy EXCEPT ![p] = [storePolicy EXCEPT !.conditions = <<>>]]
    /\ fetched' = [fetched EXCEPT ![p] = Append(@, Fetched(storePolicy))]
    /\ calls' = [calls EXCEPT ![p].get = @ + 1, ![p].lastRead = "ok"]
    /\ pc' = [pc EXCEPT ![p] = "StatusUpdate"]
    /\ UNCHANGED <<storeVars, now, op, attempt, enactments, nmstateNodes, result>>

\* cli.Get fails: "getting policy failed" (Reset, lines 159-162)
ResetGetFails(p) ==
    /\ pc[p] = "Get" /\ op[p] = "Reset"
    /\ calls' = [calls EXCEPT ![p].get = @ + 1, ![p].lastRead = "error"]
    /\ Finish(p, "ReadFailure")
    /\ UNCHANGED <<storeVars, now, op, attempt, policy, enactments,
                   nmstateNodes, fetched>>

\* the next attempt of retry.RetryOnConflict starts with fresh locals
Retry(p) ==
    /\ pc' = [pc EXCEPT ![p] = "Get"]
    /\ attempt' = [attempt EXCEPT ![p] = @ + 1]
    /\ policy' = [policy EXCEPT ![p] = ZeroPolicy]
    /\ enactments' = [enactments EXCEPT ![p] = ZeroEnactments]
    /\ nmstateNodes' = [nmstateNodes EXCEPT ![p] = {}]
    /\ UNCHANGED result

\* the write of a Reset deletes the enactments of the policy as well
StatusUpdateDeletesEnactments(p) ==
    /\ pc[p] = "StatusUpdate"
    /\ policy[p].resourceVersion = storePolicy.resourceVersion
    /\ storePolicy' = [storePolicy EXCEPT
                          !.conditions = policy[p].conditions,
                          !.resourceVersion = @ + 1]
    /\ storeEnactments' = IF op[p] = "Reset" THEN ZeroEnactments
                          ELSE storeEnactments
    /\ calls' = [calls EXCEPT ![p].update = @ + 1, ![p].written = @ + 1,
                              ![p].lastUpdate = "ok",
                              ![p].stored = policy[p].conditions]
    /\ Finish(p, "nil")
    /\ UNCHANGED <<storeNodes, policyWrites, agentWrites, now,
                   op, attempt, policy, enactments, nmstateNodes, fetched>>

\* the write carries no resourceVersion and the store accepts it whatever
\* the policy has become since it was read
StatusUpdateWithoutToken(p) ==
    /\ pc[p] = "StatusUpdate"
    /\ storePolicy' = [storePolicy EXCEPT
                          !.conditions = policy[p].conditions,
                          !.resourceVersion = @ + 1]
    /\ calls' = [calls EXCEPT ![p].update = @ + 1, ![p].written = @ + 1,
                              ![p].lastUpdate = "ok",
                              ![p].stored = policy[p].conditions]
    /\ Finish(p, "nil")
    /\ UNCHANGED <<storeEnactments, storeNodes, policyWrites, agentWrites, now,
                   op, attempt, policy, enactments, nmstateNodes, fetched>>

\* the closure returns a stale conflict after a write that succeeded, and
\* retry.RetryOnConflict runs it again
StatusUpdateThenAgain(p) ==
    /\ pc[p] = "StatusUpdate"
    /\ policy[p].resourceVersion = storePolicy.resourceVersion
    /\ storePolicy' = [storePolicy EXCEPT
                          !.conditions = policy[p].conditions,
                          !.resourceVersion = @ + 1]
    /\ calls' = [calls EXCEPT ![p].update = @ + 1, ![p].written = @ + 1,
                              ![p].lastUpdate = "ok",
                              ![p].stored = policy[p].conditions]
    /\ IF attempt[p] < DefaultRetrySteps
       THEN Retry(p)
       ELSE /\ Finish(p, "Conflict")
            /\ UNCHANGED <<attempt, policy, enactments, nmstateNodes>>
    /\ UNCHANGED <<storeEnactments, storeNodes, policyWrites, agentWrites, now,
                   op, fetched>>

\* cli.Status().Update stores the conditions of the copy: the copy carries
\* the resourceVersion the store holds (lines 142, 151 and 164, 173)
StatusUpdate(p) ==
    /\ pc[p] = "StatusUpdate"
    /\ policy[p].resourceVersion = storePolicy.resourceVersion
    /\ storePolicy' = [storePolicy EXCEPT
                          !.conditions = policy[p].conditions,
                          !.resourceVersion = @ + 1]
    /\ calls' = [calls EXCEPT ![p].update = @ + 1, ![p].written = @ + 1,
                              ![p].lastUpdate = "ok",
                              ![p].stored = policy[p].conditions]
    /\ Finish(p, "nil")
    /\ UNCHANGED <<storeEnactments, storeNodes, policyWrites, agentWrites, now,
                   op, attempt, policy, enactments, nmstateNodes, fetched>>

\* on a conflict the copy takes the resourceVersion of the store and the
\* conditions already computed are written again
StatusUpdateConflictMerges(p) ==
    /\ pc[p] = "StatusUpdate"
    /\ policy[p].resourceVersion # storePolicy.resourceVersion
    /\ calls' = [calls EXCEPT ![p].update = @ + 1, ![p].lastUpdate = "conflict"]
    /\ IF attempt[p] < DefaultRetrySteps
       THEN /\ attempt' = [attempt EXCEPT ![p] = @ + 1]
            /\ policy' = [policy EXCEPT ![p].resourceVersion =
                                            storePolicy.resourceVersion]
            /\ UNCHANGED <<pc, result, enactments, nmstateNodes>>
       ELSE /\ Finish(p, "Conflict")
            /\ UNCHANGED <<attempt, policy, enactments, nmstateNodes>>
    /\ UNCHANGED <<storeVars, now, op, fetched>>

\* on a conflict only the policy is read again: the conditions of the next
\* attempt are computed from the enactments and the nodes listed before
StatusUpdateConflictKeepsLists(p) ==
    /\ pc[p] = "StatusUpdate"
    /\ policy[p].resourceVersion # storePolicy.resourceVersion
    /\ IF attempt[p] < DefaultRetrySteps
       THEN /\ attempt' = [attempt EXCEPT ![p] = @ + 1]
            /\ policy' = [policy EXCEPT ![p] =
                   [storePolicy EXCEPT !.conditions =
                       UpdateConditions(storePolicy, enactments[p],
                                        nmstateNodes[p], now)]]
            /\ fetched' = [fetched EXCEPT ![p] =
                   Append(@, [fetched[p][Len(fetched[p])] EXCEPT
                                 !.policy = storePolicy, !.time = now])]
            /\ calls' = [calls EXCEPT ![p].update = @ + 1, ![p].get = @ + 1,
                                      ![p].lastUpdate = "conflict"]
            /\ UNCHANGED <<pc, result, enactments, nmstateNodes>>
       ELSE /\ Finish(p, "Conflict")
            /\ calls' = [calls EXCEPT ![p].update = @ + 1,
                                      ![p].lastUpdate = "conflict"]
            /\ UNCHANGED <<attempt, policy, enactments, nmstateNodes, fetched>>
    /\ UNCHANGED <<storeVars, now, op>>

\* a conflict is retried whatever the number of attempts made
StatusUpdateConflictUnbounded(p) ==
    /\ pc[p] = "StatusUpdate"
    /\ policy[p].resourceVersion # storePolicy.resourceVersion
    /\ calls' = [calls EXCEPT ![p].update = @ + 1, ![p].lastUpdate = "conflict"]
    /\ Retry(p)
    /\ UNCHANGED <<storeVars, now, op, fetched>>

\* cli.Status().Update is rejected with a conflict: the copy carries a stale
\* resourceVersion.  RetryOnConflict runs the closure again unless this was
\* the last of its steps (lines 95, 143-149 and 157, 165-171)
StatusUpdateConflict(p) ==
    /\ pc[p] = "StatusUpdate"
    /\ policy[p].resourceVersion # storePolicy.resourceVersion
    /\ calls' = [calls EXCEPT ![p].update = @ + 1, ![p].lastUpdate = "conflict"]
    /\ IF attempt[p] < DefaultRetrySteps
       THEN Retry(p)
       ELSE /\ Finish(p, "Conflict")
            /\ UNCHANGED <<attempt, policy, enactments, nmstateNodes>>
    /\ UNCHANGED <<storeVars, now, op, fetched>>

\* any error of cli.Status().Update is retried like a conflict
StatusUpdateFailsRetried(p) ==
    /\ pc[p] = "StatusUpdate"
    /\ calls' = [calls EXCEPT ![p].update = @ + 1, ![p].lastUpdate = "error"]
    /\ IF attempt[p] < DefaultRetrySteps
       THEN Retry(p)
       ELSE /\ Finish(p, "WriteFailure")
            /\ UNCHANGED <<attempt, policy, enactments, nmstateNodes>>
    /\ UNCHANGED <<storeVars, now, op, fetched>>

\* cli.Status().Update fails with another error, which is returned
\* (lines 143-149 and 165-171)
StatusUpdateFails(p) ==
    /\ pc[p] = "StatusUpdate"
    /\ calls' = [calls EXCEPT ![p].update = @ + 1, ![p].lastUpdate = "error"]
    /\ Finish(p, "WriteFailure")
    /\ UNCHANGED <<storeVars, now, op, attempt, policy, enactments,
                   nmstateNodes, fetched>>

(***************************************************************************)
(* The other writers of the store.                                         *)
(***************************************************************************)
\* the agent of a node writes the enactment of the node for the generation
\* of the policy
AgentReport(n, r) ==
    /\ agentWrites < MaxAgentWrites
    /\ storeEnactments[n] # Enactment(storePolicy.generation, r)
    /\ storeEnactments' =
           [storeEnactments EXCEPT ![n] = Enactment(storePolicy.generation, r)]
    /\ agentWrites' = agentWrites + 1
    /\ UNCHANGED <<storePolicy, storeNodes, policyWrites, now, callerVars>>

\* the nmstate handler starts on a node
NodeJoins(n) ==
    /\ agentWrites < MaxAgentWrites
    /\ n \notin storeNodes
    /\ storeNodes' = storeNodes \cup {n}
    /\ agentWrites' = agentWrites + 1
    /\ UNCHANGED <<storePolicy, storeEnactments, policyWrites, now, callerVars>>

\* the nmstate handler leaves a node
NodeLeaves(n) ==
    /\ agentWrites < MaxAgentWrites
    /\ n \in storeNodes
    /\ storeNodes' = storeNodes \ {n}
    /\ agentWrites' = agentWrites + 1
    /\ UNCHANGED <<storePolicy, storeEnactments, policyWrites, now, callerVars>>

\* the owner changes the spec of the policy: the store bumps the generation
SpecChange ==
    /\ policyWrites < MaxPolicyWrites
    /\ storePolicy.generation < MaxGeneration
    /\ storePolicy' = [storePolicy EXCEPT !.generation = @ + 1,
                                          !.resourceVersion = @ + 1]
    /\ policyWrites' = policyWrites + 1
    /\ UNCHANGED <<storeEnactments, storeNodes, agentWrites, now, callerVars>>

\* another writer updates the policy object without changing its spec or
\* its conditions
OtherWriter(limit) ==
    /\ policyWrites < limit
    /\ storePolicy' = [storePolicy EXCEPT !.resourceVersion = @ + 1]
    /\ policyWrites' = policyWrites + 1
    /\ UNCHANGED <<storeEnactments, storeNodes, agentWrites, now, callerVars>>

\* time passes: the clock ConditionList.Set reads moves on
Tick ==
    /\ now < MaxTime
    /\ now' = now + 1
    /\ UNCHANGED <<storeVars, callerVars>>

PolicyTouched == OtherWriter(MaxPolicyWrites)

PolicyChurn == OtherWriter(MaxChurn)

(***************************************************************************)
(* Specifications.                                                         *)
(***************************************************************************)
\* a step of an invocation that is under way
AttemptStep(p) ==
    \/ UpdateGet(p)
    \/ UpdateGetFails(p)
    \/ UpdateList(p)
    \/ UpdateListFails(p)
    \/ UpdateNodes(p)
    \/ UpdateNodesFails(p)
    \/ ResetGet(p)
    \/ ResetGetFails(p)
    \/ StatusUpdate(p)
    \/ StatusUpdateConflict(p)
    \/ StatusUpdateFails(p)

CallerStep(p) ==
    \/ UpdateInvoke(p)
    \/ ResetInvoke(p)
    \/ AttemptStep(p)

Environment ==
    \/ \E n \in ActiveNodes, r \in EnactmentReports : AgentReport(n, r)
    \/ \E n \in ActiveNodes : NodeJoins(n)
    \/ \E n \in ActiveNodes : NodeLeaves(n)
    \/ SpecChange
    \/ PolicyTouched

Next ==
    \/ \E p \in Single : CallerStep(p)
    \/ Environment

\* callers running against a store that other writers change
Spec == Init /\ [][Next]_vars

NextChurn ==
    \/ \E p \in Single : CallerStep(p)
    \/ PolicyChurn

\* callers running while other writers keep updating the policy object
SpecChurn == Init /\ [][NextChurn]_vars

\* the same, where an invocation under way is not suspended forever: Update
\* and Reset run their attempts in the calling goroutine
SpecChurnFair == SpecChurn /\ \A p \in Callers : WF_vars(AttemptStep(p))

NextQuiet ==
    \E p \in Single :
        \/ UpdateInvoke(p)
        \/ UpdateGet(p)
        \/ UpdateList(p)
        \/ UpdateNodes(p)
        \/ StatusUpdate(p)

\* one Update against a cluster in any state that nobody else changes and
\* whose store answers every call
SpecQuiet == InitAnyCluster /\ [][NextQuiet]_vars

\* conditions a policy may hold when an invocation finds it: none, those of
\* an earlier reconciliation, or conditions another writer of the status
\* left (one type only, or the two types in the other order)
PriorConditions ==
    EarlierConditions \cup
    { Set(<<>>, Available, ConditionTrue, SuccessfullyConfigured,
          "1/1 nodes successfully configured", 0),
      Set(Set(<<>>, Available, ConditionUnknown, ConfigurationProgressing,
              "Policy is progressing 0/1 nodes finished", 0),
          Degraded, ConditionUnknown, ConfigurationProgressing, "", 0) }

\* A policy of the first generation with any of those conditions; the nodes
\* with an agent have reported anything or nothing for it.
InitSerial ==
    /\ storePolicy \in [generation : {1}, resourceVersion : {1},
                         conditions : PriorConditions]
    /\ storeEnactments \in
           { f \in [Nodes -> EnactmentValues] :
                 /\ \A n \in Nodes : f[n].policyGeneration <= 1
                 /\ \A n \in Nodes \ ActiveNodes : f[n] = NoEnactment
                 /\ \A n \in 1..(NumActiveNodes - 1) :
                        Rank(f[n]) <= Rank(f[n + 1]) }
    /\ storeNodes \in SUBSET ActiveNodes
    /\ now = 0
    /\ policyWrites = 0
    /\ agentWrites = 0
    /\ InitCallers

\* a step of an invocation whose writes meet no conflict
UncontendedStep(p) ==
    \/ UpdateInvoke(p)
    \/ ResetInvoke(p)
    \/ UpdateGet(p)
    \/ UpdateGetFails(p)
    \/ UpdateList(p)
    \/ UpdateListFails(p)
    \/ UpdateNodes(p)
    \/ UpdateNodesFails(p)
    \/ ResetGet(p)
    \/ ResetGetFails(p)
    \/ StatusUpdate(p)
    \/ StatusUpdateFails(p)

NextSerial ==
    \/ UncontendedStep(1)
    \/ pc[1] = "Done" /\ UncontendedStep(2)
    \/ Tick

\* an invocation and, when it has returned, another one, while time passes
\* and nobody changes the enactments, the nodes or the spec
SpecSerial == InitSerial /\ [][NextSerial]_vars

\* a step of an Update whose store calls return no error but a conflict
OverlapStep(p) ==
    \/ UpdateInvoke(p)
    \/ UpdateGet(p)
    \/ UpdateList(p)
    \/ UpdateNodes(p)
    \/ StatusUpdate(p)
    \/ StatusUpdateConflict(p)

NextOverlap ==
    \/ \E p \in Callers : OverlapStep(p)
    \/ \E n \in ActiveNodes, r \in EnactmentReports : AgentReport(n, r)
    \/ \E n \in ActiveNodes : NodeJoins(n)
    \/ \E n \in ActiveNodes : NodeLeaves(n)

\* two Updates of the same policy that overlap in any way, while agents
\* report and nodes come and go
SpecOverlap == Init /\ [][NextOverlap]_vars

(***************************************************************************)
(* What the claims speak of.                                               *)
(***************************************************************************)
\* the condition of the given type in a list that holds one
Cond(conditions, conditionType) == conditions[Find(conditions, conditionType)]

\* the conditions without their timestamps
Strip(conditions) ==
    [i \in 1..Len(conditions) |->
        [type |-> conditions[i].type, status |-> conditions[i].status,
         reason |-> conditions[i].reason, message |-> conditions[i].message]]

\* the list holds a Degraded and an Available condition with these statuses,
\* both with this reason
VerdictIs(conditions, degradedStatus, availableStatus, reason) ==
    /\ Find(conditions, Degraded) # 0
    /\ Find(conditions, Available) # 0
    /\ Cond(conditions, Degraded).status = degradedStatus
    /\ Cond(conditions, Available).status = availableStatus
    /\ Cond(conditions, Degraded).reason = reason
    /\ Cond(conditions, Available).reason = reason

\* the caller's attempt of Update has set the conditions in its copy
Computed(p) ==
    /\ op[p] = "Update"
    /\ \/ pc[p] = "StatusUpdate"
       \/ pc[p] = "Done" /\ result[p] \in {"nil", "WriteFailure", "Conflict"}

\* the counts and the number of eligible nodes of the caller's attempt
CountOf(p) == Count(enactments[p], policy[p].generation)
FinishedOf(p) ==
    CountOf(p).available + CountOf(p).failed + CountOf(p).notMatching
        + CountOf(p).aborted
EligibleOf(p) == Cardinality(nmstateNodes[p])

\* Update returned nil and nothing was written to the policy since
Stored(p) ==
    /\ op[p] = "Update" /\ pc[p] = "Done" /\ result[p] = "nil"
    /\ storePolicy.resourceVersion = policy[p].resourceVersion + 1

\* C1: when fewer enactments have finished than there are eligible nodes,
\* Update sets Degraded and Available to Unknown with the reason
\* ConfigurationProgressing, whatever the failed and aborted counts are,
\* and that is what it stores.
C1_ProgressingWhileUnfinished ==
    \A p \in Callers :
        Computed(p) =>
            LET count == CountOf(p)
                finished == count.available + count.failed
                                + count.notMatching + count.aborted
            IN finished < EligibleOf(p) =>
                   /\ VerdictIs(policy[p].conditions, ConditionUnknown,
                                ConditionUnknown, ConfigurationProgressing)
                   /\ Stored(p) =>
                          VerdictIs(storePolicy.conditions, ConditionUnknown,
                                    ConditionUnknown, ConfigurationProgressing)

\* C1: an Update has stored the progressing verdict although one node
\* failed and another aborted
C1_Witness ==
    \E p \in Callers :
        /\ Stored(p)
        /\ FinishedOf(p) < EligibleOf(p)
        /\ CountOf(p).failed > 0
        /\ CountOf(p).aborted > 0
        /\ Cond(storePolicy.conditions, Available).status = ConditionUnknown

\* C3: when the finished enactments are at least the eligible nodes and no
\* enactment matches, Update sets Degraded=False and Available=True with
\* the reason ConfigurationNoMatchingNode and the message "Policy does not
\* match any node", and that is what it stores.
C3_NotMatchingWhenNoneMatches ==
    \A p \in Callers :
        Computed(p) =>
            LET count == CountOf(p)
                finished == count.available + count.failed
                                + count.notMatching + count.aborted
            IN finished >= EligibleOf(p) /\ count.matching = 0 =>
                   /\ VerdictIs(policy[p].conditions, ConditionFalse,
                                ConditionTrue, ConfigurationNoMatchingNode)
                   /\ Cond(policy[p].conditions, Available).message
                          = "Policy does not match any node"
                   /\ Cond(policy[p].conditions, Degraded).message
                          = "Policy does not match any node"
                   /\ Stored(p) =>
                          /\ VerdictIs(storePolicy.conditions, ConditionFalse,
                                       ConditionTrue,
                                       ConfigurationNoMatchingNode)
                          /\ Cond(storePolicy.conditions, Available).message
                                 = "Policy does not match any node"

\* C3: an Update has stored NotMatching for a cluster with no eligible node
\* and no enactment of the current generation
C3_Witness ==
    \E p \in Callers :
        /\ Stored(p)
        /\ EligibleOf(p) = 0
        /\ Counted(enactments[p], policy[p].generation) = {}
        /\ Cond(storePolicy.conditions, Available).reason
               = ConfigurationNoMatchingNode

\* C4: when the finished enactments are at least the eligible nodes, some
\* enactment matches and some node failed or aborted, Update sets
\* Degraded=True and Available=False with the reason FailedToConfigure, and
\* the Degraded message is "<failed>/<matching> nodes failed to configure"
\* followed, exactly when aborted > 0, by ", <aborted> nodes aborted
\* configuration"; for failed=1, matching=3, aborted=1 that message is
\* "1/3 nodes failed to configure, 1 nodes aborted configuration".
C4_FailedToConfigure ==
    \A p \in Callers :
        Computed(p) =>
            LET count == CountOf(p)
                finished == count.available + count.failed
                                + count.notMatching + count.aborted
                expected ==
                    ToString(count.failed) \o "/"
                        \o ToString(count.matching)
                        \o " nodes failed to configure"
                        \o (IF count.aborted > 0
                            THEN ", " \o ToString(count.aborted)
                                     \o " nodes aborted configuration"
                            ELSE "")
            IN finished >= EligibleOf(p) /\ count.matching > 0
                   /\ (count.failed > 0 \/ count.aborted > 0) =>
                   /\ VerdictIs(policy[p].conditions, ConditionTrue,
                                ConditionFalse, FailedToConfigure)
                   /\ Cond(policy[p].conditions, Degraded).message = expected
                   /\ Stored(p) =>
                          /\ VerdictIs(storePolicy.conditions, ConditionTrue,
                                       ConditionFalse, FailedToConfigure)
                          /\ Cond(storePolicy.conditions, Degraded).message
                                 = expected
                   /\ FailedMessage([available |-> 1, failed |-> 1,
                                     notMatching |-> 1, aborted |-> 1,
                                     progressing |-> 0, matching |-> 3])
                          = "1/3 nodes failed to configure, 1 nodes aborted configuration"

\* C4: an Update has stored the failure of one of two matching nodes, with
\* one node aborted, on a cluster of three eligible nodes
C4_Witness ==
    \E p \in Callers :
        /\ Stored(p)
        /\ EligibleOf(p) = 3
        /\ CountOf(p).matching = 2
        /\ CountOf(p).failed = 1
        /\ CountOf(p).aborted = 1
        /\ Cond(storePolicy.conditions, Degraded).message
               = "1/2 nodes failed to configure, 1 nodes aborted configuration"

\* C5: when the finished enactments are at least the eligible nodes, some
\* enactment matches and no node failed or aborted, Update sets
\* Degraded=False and Available=True with the reason SuccessfullyConfigured
\* and the Available message "<available>/<available> nodes successfully
\* configured".
C5_Success ==
    \A p \in Callers :
        Computed(p) =>
            LET count == CountOf(p)
                finished == count.available + count.failed
                                + count.notMatching + count.aborted
                expected ==
                    ToString(count.available) \o "/"
                        \o ToString(count.available)
                        \o " nodes successfully configured"
            IN finished >= EligibleOf(p) /\ count.matching > 0
                   /\ count.failed = 0 /\ count.aborted = 0 =>
                   /\ VerdictIs(policy[p].conditions, ConditionFalse,
                                ConditionTrue, SuccessfullyConfigured)
                   /\ Cond(policy[p].conditions, Available).message = expected
                   /\ Stored(p) =>
                          /\ VerdictIs(storePolicy.conditions, ConditionFalse,
                                       ConditionTrue, SuccessfullyConfigured)
                          /\ Cond(storePolicy.conditions, Available).message
                                 = expected

\* C5: an Update has stored the success of three available nodes out of
\* three eligible, matching nodes
C5_Witness ==
    \E p \in Callers :
        /\ Stored(p)
        /\ EligibleOf(p) = 3
        /\ CountOf(p).available = 3
        /\ CountOf(p).matching = 3
        /\ Cond(storePolicy.conditions, Available).message
               = "3/3 nodes successfully configured"

\* the list without the enactments of another generation
RemoveStale(items, generation) ==
    [n \in Nodes |-> IF items[n].policyGeneration = generation
                     THEN items[n] ELSE NoEnactment]

\* C6: an enactment whose generation differs from the generation of the
\* policy read in the same attempt counts in no bucket: the conditions
\* Update sets are those it sets when the stale enactments are taken out of
\* the list, and when every enactment in the list is stale they are
\* Progressing with 0 finished (NotMatching when no node is eligible).
C6_StaleEnactmentsNotCounted ==
    \A p \in Callers :
        Computed(p) /\ Len(fetched[p]) = attempt[p] =>
            LET read == fetched[p][attempt[p]]
                generation == read.policy.generation
            IN /\ policy[p].conditions
                      = UpdateConditions(read.policy,
                                         RemoveStale(enactments[p], generation),
                                         nmstateNodes[p], read.time)
               /\ (\A n \in Nodes :
                       enactments[p][n].policyGeneration # generation) =>
                      IF EligibleOf(p) > 0
                      THEN /\ VerdictIs(policy[p].conditions, ConditionUnknown,
                                        ConditionUnknown,
                                        ConfigurationProgressing)
                           /\ Cond(policy[p].conditions, Available).message
                                  = "Policy is progressing 0/"
                                        \o ToString(EligibleOf(p))
                                        \o " nodes finished"
                      ELSE VerdictIs(policy[p].conditions, ConditionFalse,
                                     ConditionTrue, ConfigurationNoMatchingNode)

\* C6: every node is eligible and has finished for generation 1, the policy
\* is of generation 2, and Update has stored Progressing with 0 of 3 finished
C6_Witness ==
    \E p \in Callers :
        /\ Stored(p)
        /\ policy[p].generation = 2
        /\ nmstateNodes[p] = Nodes
        /\ \A n \in Nodes :
               /\ enactments[p][n].policyGeneration = 1
               /\ Bucket(enactments[p][n]) = "available"
        /\ Cond(storePolicy.conditions, Available).message
               = "Policy is progressing 0/3 nodes finished"

\* C2: the conditions a successful Persist of Update writes are the result
\* of the decision on the policy, the enactments and the nodes read in the
\* same attempt, an attempt that made each of its three reads; after a
\* conflict they come from the reads of the later attempt.
C2_StoredFromSameAttempt ==
    \A p \in Callers :
        op[p] = "Update" /\ calls[p].written > 0 =>
            /\ Len(fetched[p]) = attempt[p]
            /\ calls[p].get = attempt[p]
            /\ calls[p].list = attempt[p]
            /\ calls[p].nodes = attempt[p]
            /\ LET read == fetched[p][attempt[p]]
               IN calls[p].stored
                      = UpdateConditions(read.policy, read.enactments,
                                         read.nmstateNodes, read.time)
            /\ Stored(p) => storePolicy.conditions = calls[p].stored

\* C2: the first Persist of an Update was rejected with a conflict, the
\* second succeeded, and the stored conditions differ from those the reads
\* of the first attempt give
C2_Witness ==
    \E p \in Callers :
        /\ Stored(p)
        /\ attempt[p] = 2
        /\ calls[p].update = 2
        /\ LET first == fetched[p][1]
           IN Strip(storePolicy.conditions)
                  # Strip(UpdateConditions(first.policy, first.enactments,
                                           first.nmstateNodes, first.time))

\* C7: an invocation of Update or Reset makes at most DefaultRetrySteps
\* attempts, each with one Get and one Persist; when the last of them is
\* rejected with a conflict too it returns the conflict; and an invocation
\* under way always returns.
C7_BoundedRetry ==
    /\ [](\A p \in Callers :
            /\ attempt[p] <= DefaultRetrySteps
            /\ calls[p].get <= DefaultRetrySteps
            /\ calls[p].update <= DefaultRetrySteps
            /\ calls[p].update = DefaultRetrySteps
                   /\ calls[p].lastUpdate = "conflict" =>
                   pc[p] = "Done" /\ result[p] = "Conflict")
    /\ \A p \in Callers : Running(p) ~> (pc[p] = "Done")

\* C7: every Persist of the budget of an Update was rejected with a conflict
\* and the Update returned the conflict
C7_Witness ==
    \E p \in Callers :
        /\ op[p] = "Update"
        /\ pc[p] = "Done"
        /\ result[p] = "Conflict"
        /\ calls[p].get = DefaultRetrySteps
        /\ calls[p].update = DefaultRetrySteps
        /\ calls[p].written = 0

\* C8: once a Persist of Update or Reset has failed with an error that is
\* no conflict, the invocation has returned that error and has made no
\* store call since: its Gets and Persists number the attempt in which the
\* error came.
C8_WriteFailureReturned ==
    \A p \in Callers :
        calls[p].lastUpdate = "error" =>
            /\ pc[p] = "Done"
            /\ result[p] = "WriteFailure"
            /\ calls[p].get = attempt[p]
            /\ calls[p].update = attempt[p]
            /\ calls[p].written = 0

\* C8: the second Persist of an Update failed, with retry budget left, and
\* the Update returned the error
C8_Witness ==
    \E p \in Callers :
        /\ op[p] = "Update"
        /\ calls[p].lastUpdate = "error"
        /\ result[p] = "WriteFailure"
        /\ attempt[p] = 2
        /\ attempt[p] < DefaultRetrySteps

\* C9: once a read of Update has failed (the policy, the enactments or the
\* nodes), the invocation has returned the error, has made no Persist in
\* that attempt and no store call since; and an Update that has written made
\* all three reads in the attempt that wrote.
C9_ReadFailureReturned ==
    \A p \in Callers :
        op[p] = "Update" =>
            /\ calls[p].lastRead = "error" =>
                   /\ pc[p] = "Done"
                   /\ result[p] = "ReadFailure"
                   /\ calls[p].get = attempt[p]
                   /\ calls[p].update = attempt[p] - 1
                   /\ calls[p].written = 0
            /\ calls[p].written > 0 =>
                   /\ calls[p].lastRead = "ok"
                   /\ calls[p].get = attempt[p]
                   /\ calls[p].list = attempt[p]
                   /\ calls[p].nodes = attempt[p]

\* C9: the listing of the nodes failed in the second attempt of an Update,
\* which returned the error with nothing written
C9_Witness ==
    \E p \in Callers :
        /\ op[p] = "Update"
        /\ calls[p].lastRead = "error"
        /\ result[p] = "ReadFailure"
        /\ attempt[p] = 2
        /\ calls[p].nodes = 2
        /\ calls[p].update = 1
        /\ calls[p].written = 0

\* C10: Reset lists neither enactments nor nodes; before each Persist it
\* has read the policy in the same attempt and holds an empty condition
\* list with the resourceVersion it read; what it writes is the empty list;
\* and it returns nil only after a Persist that succeeded, which leaves the
\* stored policy without conditions.
C10_ResetClearsConditions ==
    \A p \in Callers :
        op[p] = "Reset" =>
            /\ calls[p].list = 0
            /\ calls[p].nodes = 0
            /\ enactments[p] = ZeroEnactments
            /\ nmstateNodes[p] = {}
            /\ pc[p] = "StatusUpdate" =>
                   /\ Len(fetched[p]) = attempt[p]
                   /\ calls[p].get = attempt[p]
                   /\ calls[p].update = attempt[p] - 1
                   /\ policy[p].resourceVersion
                          = fetched[p][attempt[p]].policy.resourceVersion
                   /\ policy[p].conditions = <<>>
            /\ calls[p].written > 0 => calls[p].stored = <<>>
            /\ result[p] = "nil" =>
                   /\ calls[p].written = 1
                   /\ storePolicy.resourceVersion = policy[p].resourceVersion + 1
                          => storePolicy.conditions = <<>>

\* C10: the first Persist of a Reset was rejected with a conflict, its
\* second attempt read a policy with conditions, and the Reset returned nil
\* leaving the stored policy without conditions
C10_Witness ==
    \E p \in Callers :
        /\ op[p] = "Reset"
        /\ result[p] = "nil"
        /\ attempt[p] = 2
        /\ fetched[p][2].policy.conditions # <<>>
        /\ storePolicy.conditions = <<>>

\* C15: Update stores a verdict other than Progressing only when every
\* eligible node has an enactment of the generation of the policy that is
\* classified available, failed, notMatching or aborted.
C15_EveryEligibleNodeFinished ==
    \A p \in Callers :
        Stored(p)
            /\ ~VerdictIs(storePolicy.conditions, ConditionUnknown,
                          ConditionUnknown, ConfigurationProgressing) =>
            \A n \in nmstateNodes[p] :
                /\ enactments[p][n] # NoEnactment
                /\ enactments[p][n].policyGeneration = policy[p].generation
                /\ Bucket(enactments[p][n]) # "progressing"

\* C17: the counts Update works with put every enactment of the generation
\* of the policy in exactly one of the five buckets: the five counts add up
\* to the number of those enactments, matching is that number less
\* notMatching, and with matching = 0 neither failed nor aborted is positive.
C17_BucketsPartition ==
    \A p \in Callers :
        Computed(p) =>
            LET count == EnactmentsCount(policy[p], enactments[p])
                current ==
                    Cardinality({ n \in Nodes :
                        /\ enactments[p][n] # NoEnactment
                        /\ enactments[p][n].policyGeneration
                               = policy[p].generation })
            IN /\ count.available + count.failed + count.notMatching
                      + count.aborted + count.progressing = current
               /\ count.matching = current - count.notMatching
               /\ count.matching >= 0
               /\ count.matching = 0 =>
                      count.failed = 0 /\ count.aborted = 0

\* C17: of three enactments one is of an older generation and failed, the
\* two of the policy's generation do not match, and Update has stored
\* NotMatching
C17_Witness ==
    \E p \in Callers :
        /\ Stored(p)
        /\ \E n \in Nodes :
               /\ enactments[p][n] # NoEnactment
               /\ enactments[p][n].policyGeneration # policy[p].generation
               /\ Bucket(enactments[p][n]) = "failed"
        /\ CountOf(p).notMatching = 2
        /\ CountOf(p).matching = 0
        /\ CountOf(p).failed = 0
        /\ Cond(storePolicy.conditions, Available).reason
               = ConfigurationNoMatchingNode

C18_WrittenForStoredGeneration ==
    [][\A p \in Callers :
           op[p] = "Update" /\ calls'[p].written > calls[p].written =>
               /\ policy[p].generation = storePolicy.generation
               /\ storePolicy'.generation = policy[p].generation
               /\ fetched[p][attempt[p]].policy.generation
                      = storePolicy.generation
               /\ storePolicy'.conditions =
                      UpdateConditions(
                          [fetched[p][attempt[p]].policy EXCEPT
                              !.generation = storePolicy.generation],
                          fetched[p][attempt[p]].enactments,
                          fetched[p][attempt[p]].nmstateNodes,
                          fetched[p][attempt[p]].time)]_vars

\* C18: the spec of the policy changed between the first Get of an Update
\* and its Persist, which was rejected; the second attempt listed the same
\* enactments, found them stale, and stored another verdict for generation 2
C18_Witness ==
    \E p \in Callers :
        /\ Stored(p)
        /\ attempt[p] = 2
        /\ fetched[p][1].policy.generation = 1
        /\ fetched[p][1].nmstateNodes # {}
        /\ fetched[p][1].enactments = fetched[p][2].enactments
        /\ fetched[p][1].enactments # ZeroEnactments
        /\ storePolicy.generation = 2
        /\ Strip(storePolicy.conditions)
               # Strip(UpdateConditions(fetched[p][1].policy,
                                        fetched[p][1].enactments,
                                        fetched[p][1].nmstateNodes,
                                        fetched[p][1].time))

\* C20: an invocation of Update or Reset makes at most one write that
\* succeeds, and none after it; it returns nil exactly when its last Persist
\* succeeded; an invocation that has not written, so any that returns an
\* error, has left the stored conditions as its first Get found them; and
\* the stored conditions change only in the step of a write that succeeds,
\* with which the invocation returns nil.
C20_AtMostOneWrite ==
    /\ [](\A p \in Callers :
            /\ calls[p].written <= 1
            /\ calls[p].written = 1 =>
                   /\ pc[p] = "Done" /\ result[p] = "nil"
                   /\ calls[p].update = attempt[p]
                   /\ calls[p].get = attempt[p]
            /\ pc[p] = "Done" =>
                   /\ result[p] = "nil" <=> calls[p].lastUpdate = "ok"
                   /\ result[p] = "nil" <=> calls[p].written = 1
                   /\ result[p] \in {"ReadFailure", "WriteFailure", "Conflict"}
                          => calls[p].written = 0
            /\ calls[p].written = 0 /\ Len(fetched[p]) > 0 =>
                   storePolicy.conditions = fetched[p][1].policy.conditions)
    /\ [][storePolicy'.conditions # storePolicy.conditions =>
              \E p \in Callers :
                  /\ calls[p].written = 0 /\ calls'[p].written = 1
                  /\ pc'[p] = "Done" /\ result'[p] = "nil"]_vars

\* C20: every Persist of a Reset was rejected with a conflict, the Reset
\* returned the conflict, and the policy still holds its conditions
C20_Witness ==
    \E p \in Callers :
        /\ op[p] = "Reset"
        /\ pc[p] = "Done"
        /\ result[p] = "Conflict"
        /\ calls[p].update = DefaultRetrySteps
        /\ calls[p].written = 0
        /\ storePolicy.conditions # <<>>

\* C11: with the enactments, the nodes and the generation unchanged, when
\* an invocation has returned and the same operation invoked again has
\* returned nil: after two Resets the policy has no conditions; after two
\* Updates that both returned nil the second stored every condition with
\* the type, status, reason and message the first stored, in the same
\* order; and after an Update that failed, the conditions stored are those
\* a single Update makes of the conditions the failed one found.
C11_Idempotent ==
    pc[1] = "Done" /\ pc[2] = "Done" /\ result[2] = "nil" /\ op[1] = op[2] =>
        IF op[2] = "Reset"
        THEN storePolicy.conditions = <<>>
        ELSE /\ result[1] = "nil" =>
                    /\ Strip(calls[2].stored) = Strip(calls[1].stored)
                    /\ Strip(storePolicy.conditions) = Strip(calls[1].stored)
             /\ result[1] # "nil" /\ Len(fetched[1]) > 0 =>
                    storePolicy.conditions =
                        UpdateConditions(fetched[1][1].policy, storeEnactments,
                                         storeNodes,
                                         fetched[2][attempt[2]].time)

\* C11: two Updates have returned nil, the second later than the first; both
\* found a node that failed, and the policy held other conditions before
C11_Witness ==
    /\ op[1] = "Update" /\ op[2] = "Update"
    /\ pc[2] = "Done"
    /\ result[1] = "nil" /\ result[2] = "nil"
    /\ fetched[1][1].time < fetched[2][1].time
    /\ Strip(fetched[1][1].policy.conditions) # Strip(calls[1].stored)
    /\ Cond(storePolicy.conditions, Degraded).message
           = "1/1 nodes failed to configure"

\* the conditions Update makes, at the given time, of a policy without
\* conditions in the cluster as the store holds it
OnEmptyList(time) ==
    UpdateConditions([storePolicy EXCEPT !.conditions = <<>>],
                     storeEnactments, storeNodes, time)

\* C12: when a Reset and then an Update have returned nil, the policy holds
\* the conditions (type, status, reason and message, Degraded first and
\* Available second) that Update makes of an empty condition list, whatever
\* the policy held before the Reset; and an Update alone that found the list
\* empty has stored those same conditions.
C12_ResetThenUpdate ==
    /\ op[1] = "Reset" /\ result[1] = "nil"
           /\ op[2] = "Update" /\ pc[2] = "Done" /\ result[2] = "nil" =>
           /\ storePolicy.conditions = OnEmptyList(fetched[2][attempt[2]].time)
           /\ Len(storePolicy.conditions) = 2
           /\ storePolicy.conditions[1].type = Degraded
           /\ storePolicy.conditions[2].type = Available
    /\ op[1] = "Update" /\ pc[1] = "Done" /\ result[1] = "nil"
           /\ fetched[1][attempt[1]].policy.conditions = <<>>
           /\ pc[2] = "Idle" =>
           storePolicy.conditions = OnEmptyList(fetched[1][attempt[1]].time)

\* C12: the policy held an Available and a Degraded condition, in that
\* order, from an earlier time; a Reset and a later Update have returned nil
\* and the policy holds Degraded and then Available, both of the time of the
\* Update
C12_Witness ==
    /\ op[1] = "Reset" /\ result[1] = "nil"
    /\ op[2] = "Update" /\ pc[2] = "Done" /\ result[2] = "nil"
    /\ Len(fetched[1][1].policy.conditions) = 2
    /\ fetched[1][1].policy.conditions[1].type = Available
    /\ storePolicy.conditions[1].type = Degraded
    /\ storePolicy.conditions[1].lastTransitionTime > 0
    /\ storePolicy.conditions[2].status = ConditionUnknown

\* the number of conditions of the given type in the list
NumberOf(conditions, conditionType) ==
    Cardinality({ i \in 1..Len(conditions) :
                      conditions[i].type = conditionType })

\* C14: in the conditions an Update stores, a condition whose type the list
\* it read held with the same status keeps the lastTransitionTime it had
\* and gets the time of the Update as lastHeartbeatTime, which is no earlier
\* than the one it had; a condition whose status differs, or whose type the
\* list did not hold, gets the time of the Update as both; and each type is
\* in the list once.  So of two consecutive Updates with the same verdict
\* the second leaves every lastTransitionTime as the first stored it and
\* moves the lastHeartbeatTime to its own time.
C14_TransitionAndHeartbeat ==
    /\ \A p \in Callers :
           op[p] = "Update" /\ calls[p].written = 1 =>
               LET read == fetched[p][attempt[p]]
                   before == read.policy.conditions
                   after == calls[p].stored
               IN \A ty \in {Degraded, Available} :
                      /\ NumberOf(after, ty) = 1
                      /\ Cond(after, ty).lastHeartbeatTime = read.time
                      /\ IF /\ Find(before, ty) # 0
                            /\ Cond(before, ty).status = Cond(after, ty).status
                         THEN /\ Cond(after, ty).lastTransitionTime
                                     = Cond(before, ty).lastTransitionTime
                              /\ Cond(after, ty).lastHeartbeatTime
                                     >= Cond(before, ty).lastHeartbeatTime
                         ELSE Cond(after, ty).lastTransitionTime = read.time
    /\ op[1] = "Update" /\ result[1] = "nil"
           /\ op[2] = "Update" /\ pc[2] = "Done" /\ result[2] = "nil" =>
           \A ty \in {Degraded, Available} :
               /\ Cond(storePolicy.conditions, ty).lastTransitionTime
                      = Cond(calls[1].stored, ty).lastTransitionTime
               /\ Cond(storePolicy.conditions, ty).lastHeartbeatTime
                      = fetched[2][attempt[2]].time
               /\ fetched[2][attempt[2]].time > fetched[1][attempt[1]].time =>
                      Cond(storePolicy.conditions, ty).lastHeartbeatTime
                          > Cond(calls[1].stored, ty).lastHeartbeatTime

\* C14: the first Update changed the status of Available at time 1, the
\* second reached the same verdict at time 2: Available holds the
\* lastTransitionTime 1 and the lastHeartbeatTime 2
C14_Witness ==
    /\ op[1] = "Update" /\ result[1] = "nil"
    /\ op[2] = "Update" /\ pc[2] = "Done" /\ result[2] = "nil"
    /\ Find(fetched[1][1].policy.conditions, Available) # 0
    /\ Cond(fetched[1][1].policy.conditions, Available).status
           # Cond(calls[1].stored, Available).status
    /\ Cond(calls[1].stored, Available).lastTransitionTime = 1
    /\ Cond(storePolicy.conditions, Available).lastTransitionTime = 1
    /\ Cond(storePolicy.conditions, Available).lastHeartbeatTime = 2

\* C19: the conditions an Update stores, whatever the list it read held,
\* are one Degraded and one Available condition with the same reason whose
\* statuses are (Unknown, Unknown), (False, True) or (True, False).
C19_ConditionPair ==
    \A p \in Callers :
        op[p] = "Update" /\ calls[p].written = 1 =>
            LET stored == calls[p].stored
            IN /\ Len(stored) = 2
               /\ NumberOf(stored, Degraded) = 1
               /\ NumberOf(stored, Available) = 1
               /\ Cond(stored, Degraded).reason = Cond(stored, Available).reason
               /\ <<Cond(stored, Degraded).status,
                    Cond(stored, Available).status>>
                      \in { <<ConditionUnknown, ConditionUnknown>>,
                            <<ConditionFalse, ConditionTrue>>,
                            <<ConditionTrue, ConditionFalse>> }
               /\ Stored(p) => storePolicy.conditions = stored

\* C19: the policy held an Available condition only, with the status True;
\* an Update has stored Available=Unknown and, after it, Degraded=Unknown
C19_Witness ==
    \E p \in Callers :
        /\ Stored(p)
        /\ Len(fetched[p][attempt[p]].policy.conditions) = 1
        /\ fetched[p][attempt[p]].policy.conditions[1].status = ConditionTrue
        /\ storePolicy.conditions[1].type = Available
        /\ storePolicy.conditions[1].status = ConditionUnknown
        /\ storePolicy.conditions[2].type = Degraded
        /\ storePolicy.conditions[2].status = ConditionUnknown

\* the caller's Update has written, in its last attempt
Wrote(p) == op[p] = "Update" /\ calls[p].written = 1

\* the number of writes to enactments and nodes the store had seen when the
\* caller's last attempt listed the enactments
ListedAt(p) == fetched[p][attempt[p]].listedAt

\* C16: of two Updates of one policy that overlap, every attempt that has
\* reached its Persist has made its own Get and List; no two attempts that
\* read the policy with the same resourceVersion both write, and an attempt
\* holding the resourceVersion another one wrote with cannot write; of two
\* writes the later is computed from a list of the enactments taken no
\* earlier than that of the first; and when both have returned nil and the
\* store has seen no write of enactments or nodes since the last writer
\* listed, the stored conditions are the decision on the enactments and the
\* nodes the store holds.
C16_OverlappingUpdates ==
    /\ \A p \in Callers :
           pc[p] \in {"Nodes", "StatusUpdate", "Done"} =>
               /\ Len(fetched[p]) = attempt[p]
               /\ calls[p].get = attempt[p]
               /\ calls[p].list = attempt[p]
               /\ calls[p].update >= attempt[p] - 1
    /\ \A p, q \in Callers :
           p # q /\ Wrote(q) =>
               /\ Wrote(p) =>
                      policy[p].resourceVersion # policy[q].resourceVersion
               /\ pc[p] = "StatusUpdate"
                      /\ policy[p].resourceVersion = policy[q].resourceVersion
                      => storePolicy.resourceVersion # policy[p].resourceVersion
               /\ Wrote(p)
                      /\ policy[p].resourceVersion < policy[q].resourceVersion
                      => /\ ListedAt(p) <= ListedAt(q)
                         /\ storePolicy.conditions = calls[q].stored
    /\ (\A p \in Callers : pc[p] = "Done" /\ result[p] = "nil") =>
           \E last \in Callers :
               /\ Stored(last)
               /\ \A p \in Callers : ListedAt(p) <= ListedAt(last)
               /\ agentWrites = ListedAt(last) =>
                      Strip(storePolicy.conditions) =
                          Strip(UpdateConditions(storePolicy, storeEnactments,
                                                 storeNodes, 0))

\* C16: two Updates read the policy with the same resourceVersion; one
\* listed the enactments before an agent reported and wrote first, the
\* other listed after the report, was rejected, read again and wrote second:
\* the policy holds the conditions of the second, which differ from those
\* of the first and are the decision on what the store holds
C16_Witness ==
    \E p, q \in Callers :
        /\ p # q
        /\ Wrote(p) /\ Wrote(q)
        /\ pc[p] = "Done" /\ pc[q] = "Done"
        /\ attempt[p] = 1 /\ attempt[q] = 2
        /\ fetched[q][1].policy.resourceVersion = policy[p].resourceVersion
        /\ ListedAt(p) = 0
        /\ fetched[q][1].listedAt = 1
        /\ Strip(calls[p].stored) # Strip(calls[q].stored)
        /\ storePolicy.conditions = calls[q].stored
        /\ Strip(storePolicy.conditions) =
               Strip(UpdateConditions(storePolicy, storeEnactments,
                                      storeNodes, 0))

====
